---- MODULE Spec2Model ----
(***************************************************************************)
(* A model of the Moodle web-service client of src/src/moodle.rs: login,   *)
(* the authenticated POST every query goes through, the three by-id        *)
(* queries, the grade upload, the file download, and the deserialisation   *)
(* helpers and derived values of the domain types.                         *)
(*                                                                         *)
(* The client is single-threaded and blocking.  Every operation is one     *)
(* action, except download_file, whose request, file creation and          *)
(* streaming are separate steps so that a failure between them is a state. *)
(***************************************************************************)
EXTENDS Integers, Sequences, FiniteSets, TLC

VARIABLES
    moodle,   \* the Moodle value of the last successful login, or NoMoodle
    pc,       \* "idle", or the position inside download_file
    call,     \* the operation in progress or last returned: inputs, result
    disk,     \* the destination file of download_file: NoFile or its bytes
    handles,  \* number of open handles on the destination file
    stream    \* download_file: the chunks of the response body not read yet

vars == <<moodle, pc, call, disk, handles, stream>>

------------------------------------------------------------------------------
(* Bounds of the model. *)

MaxId == 3          \* ids are 1..MaxId
MaxCourses == 2     \* courses in one assignments response
MaxGroups == 2      \* groups in one submissions response
MaxUsers == 2       \* users in one users response
MaxAssignments == 2 \* assignments of a course looked into locally
MaxAreas == 1       \* file areas of one plugin
MaxPlugins == 2     \* plugins of one submission
MaxPathLen == 3     \* characters of a server-provided path or file name
MaxBody == 2        \* chunks of a downloaded body
MaxHalves == 3      \* grades range over -MaxHalves/2 .. MaxHalves/2
MaxTime == 3        \* timestamps range over -1 .. MaxTime

Ids == 1..MaxId

------------------------------------------------------------------------------
(* Result<T>, Option<T> and the Error enum. *)

Ok(v) == [ok |-> TRUE, val |-> v]
Err(e) == [ok |-> FALSE, err |-> e]

None == [some |-> FALSE]
Some(v) == [some |-> TRUE, val |-> v]

ErrReqwest == [kind |-> "Reqwest"]
ErrParse == [kind |-> "Parse"]
ErrJsonDeserialize == [kind |-> "JsonDeserialize"]
ErrIO == [kind |-> "IO"]
ErrLogin(msg) == [kind |-> "Login", msg |-> msg]
ErrNotFound(what, id) == [kind |-> "NotFound", what |-> what, id |-> id]

NoMoodle == None
NoFile == [exists |-> FALSE, bytes |-> <<>>]

------------------------------------------------------------------------------
(* Sequences of bounded length. *)

SeqUpTo(S, n) == UNION {[1..k -> S] : k \in 0..n}

(* Index of the first element of s satisfying a test, 0 when there is none
   (Iterator::find, and the for .. if .. return loops). *)
FirstIndex(s, Test(_)) ==
    IF \E i \in 1..Len(s) : Test(s[i])
    THEN CHOOSE i \in 1..Len(s) : Test(s[i]) /\ \A j \in 1..(i - 1) : ~Test(s[j])
    ELSE 0

------------------------------------------------------------------------------
(* f32 values.  A finite value is a whole number of halves (h = 3 is 1.5),
   which f32 represents exactly; NaN and the infinities are kept apart. *)

Fin(h) == [k |-> "fin", h |-> h]
NaN == [k |-> "nan", h |-> 0]
Inf == [k |-> "inf", h |-> 0]
NegInf == [k |-> "ninf", h |-> 0]

Zero == Fin(0)

F32Rank(a) == IF a.k = "ninf" THEN 0 - 1 ELSE IF a.k = "inf" THEN 1 ELSE 0

(* a < b on values that are not NaN. *)
F32Lt(a, b) ==
    \/ F32Rank(a) < F32Rank(b)
    \/ a.k = "fin" /\ b.k = "fin" /\ a.h < b.h

(* f32::max and f32::min: a NaN operand is ignored. *)
F32Max(a, b) ==
    IF a.k = "nan" THEN b
    ELSE IF b.k = "nan" THEN a
    ELSE IF F32Lt(a, b) THEN b ELSE a

F32Min(a, b) ==
    IF a.k = "nan" THEN b
    ELSE IF b.k = "nan" THEN a
    ELSE IF F32Lt(b, a) THEN b ELSE a

(* Strings are sequences of one-character strings. *)
DigitChars == <<"0", "1", "2", "3", "4", "5", "6", "7", "8", "9">>

RECURSIVE Digits(_)
Digits(n) ==
    IF n < 10 THEN <<DigitChars[n + 1]>>
    ELSE Digits(n \div 10) \o <<DigitChars[(n % 10) + 1]>>

Abs(n) == IF n < 0 THEN 0 - n ELSE n

(* u64::to_string *)
U64ToString(n) == Digits(n)

(* f32::to_string (Display): the shortest decimal that reads back the same. *)
F32ToString(a) ==
    IF a.k = "nan" THEN <<"N", "a", "N">>
    ELSE IF a.k = "inf" THEN <<"i", "n", "f">>
    ELSE IF a.k = "ninf" THEN <<"-", "i", "n", "f">>
    ELSE (IF a.h < 0 THEN <<"-">> ELSE <<>>)
         \o Digits(Abs(a.h) \div 2)
         \o (IF Abs(a.h) % 2 = 1 THEN <<".", "5">> ELSE <<>>)

------------------------------------------------------------------------------
(* Paths (std::path on Unix), as strings over a small alphabet. *)

Sep == "/"
PathChars == {"/", "a", "."}
Paths == SeqUpTo(PathChars, MaxPathLen)

EmptyPath == <<>>

HasRoot(p) == Len(p) > 0 /\ p[1] = Sep

DropFirst(p, n) == SubSeq(p, n + 1, Len(p))
DropLast(p, n) == SubSeq(p, 1, Len(p) - n)

(* The text before the first separator, and after the last one. *)
FirstSegment(p) ==
    LET i == FirstIndex(p, LAMBDA c : c = Sep)
    IN  IF i = 0 THEN p ELSE SubSeq(p, 1, i - 1)

LastSegment(p) ==
    IF \E i \in 1..Len(p) : p[i] = Sep
    THEN LET i == CHOOSE i \in 1..Len(p) :
                      p[i] = Sep /\ \A j \in (i + 1)..Len(p) : p[j] # Sep
         IN  SubSeq(p, i + 1, Len(p))
    ELSE p

(* Components::parse_single_component gives no component for "" and ".". *)
IsNoComponent(seg) == seg = <<>> \/ seg = <<".">>

(* Components::trim_left / trim_right: drop the leading (trailing) segments
   that are no component, with their separator. *)
RECURSIVE TrimLeft(_)
TrimLeft(p) ==
    IF p = <<>> THEN p
    ELSE LET seg == FirstSegment(p)
             size == Len(seg) + (IF Len(seg) < Len(p) THEN 1 ELSE 0)
         IN  IF IsNoComponent(seg) THEN TrimLeft(DropFirst(p, size)) ELSE p

RECURSIVE TrimRight(_)
TrimRight(p) ==
    IF p = <<>> THEN p
    ELSE LET seg == LastSegment(p)
             size == Len(seg) + (IF Len(seg) < Len(p) THEN 1 ELSE 0)
         IN  IF IsNoComponent(seg) THEN TrimRight(DropLast(p, size)) ELSE p

(* Path::components: the root, then the segments that are components; a
   leading "." of a relative path is kept. *)
RECURSIVE BodyComponents(_)
BodyComponents(p) ==
    IF p = <<>> THEN <<>>
    ELSE LET seg == FirstSegment(p)
             size == Len(seg) + (IF Len(seg) < Len(p) THEN 1 ELSE 0)
         IN  (IF IsNoComponent(seg) THEN <<>> ELSE <<seg>>)
             \o BodyComponents(DropFirst(p, size))

Components(p) ==
    IF HasRoot(p) THEN <<"RootDir">> \o BodyComponents(DropFirst(p, 1))
    ELSE IF p # <<>> /\ FirstSegment(p) = <<".">>
         THEN <<"CurDir">> \o BodyComponents(p)
         ELSE BodyComponents(p)

(* PartialEq for Path compares components. *)
PathEq(p, q) == Components(p) = Components(q)

(* Path::strip_prefix("/"): the prefix is the single component RootDir; the
   rest of the path is returned once the root is consumed, an error when the
   path does not start with it. *)
StripPrefixRoot(p) ==
    IF HasRoot(p) THEN Ok(TrimRight(TrimLeft(DropFirst(p, 1))))
    ELSE Err("StripPrefixError")

(* Result::unwrap_or *)
UnwrapOr(r, default) == IF r.ok THEN r.val ELSE default

(* Option::unwrap_or_default for Vec and str *)
UnwrapOrDefault(o) == IF o.some THEN o.val ELSE <<>>

(* PathBuf::join (push): an absolute operand replaces the path; otherwise a
   separator is added unless the path is empty or ends with one. *)
PathJoin(base, p) ==
    IF HasRoot(p) THEN p
    ELSE IF base # <<>> /\ base[Len(base)] # Sep THEN base \o <<Sep>> \o p
    ELSE base \o p

(* deserialize_filepath, after PathBuf::deserialize gave p. *)
deserialize_filepath(p) ==
    UnwrapOr(StripPrefixRoot(p), EmptyPath)

(* SubmissionFile::fullpath *)
fullpath(file) == PathJoin(file.filepath, file.filename)

------------------------------------------------------------------------------
(* The typed responses of the web service, and their deserialisation. *)

Map(s, F(_)) == [i \in 1..Len(s) |-> F(s[i])]

Range(s) == {s[i] : i \in 1..Len(s)}

(* SubmissionFile: filepath goes through deserialize_filepath. *)
DecodeFile(raw) ==
    [filename |-> raw.filename,
     fileurl |-> raw.fileurl,
     filepath |-> deserialize_filepath(raw.filepath)]

DecodeFiles(o) == IF o.some THEN Some(Map(o.val, DecodeFile)) ELSE None

(* SubmissionFileArea and SubmissionPlugin: derived Deserialize. *)
DecodeArea(raw) == [area |-> raw.area, files |-> DecodeFiles(raw.files)]

DecodeAreas(o) == IF o.some THEN Some(Map(o.val, DecodeArea)) ELSE None

DecodePlugin(raw) ==
    [plugin_type |-> raw.type, fileareas |-> DecodeAreas(raw.fileareas)]

(* deserialize_files without the test of the area's name. *)
ScanAreasAnyArea(areas) ==
    IF areas = <<>> THEN None ELSE Some(UnwrapOrDefault(Head(areas).files))

(* deserialize_files, inner loop: the files of the first file area named
   "submission_files", None when the loop runs to its end. *)
RECURSIVE ScanAreas(_)
ScanAreas(areas) ==
    IF areas = <<>> THEN None
    ELSE IF Head(areas).area = "submission_files"
         THEN Some(UnwrapOrDefault(Head(areas).files))
         ELSE ScanAreas(Tail(areas))

(* deserialize_files, outer loop over the plugins of type "file". *)
RECURSIVE ScanPlugins(_)
ScanPlugins(plugins) ==
    IF plugins = <<>> THEN <<>>
    ELSE LET found == IF Head(plugins).plugin_type = "file"
                      THEN ScanAreas(UnwrapOrDefault(Head(plugins).fileareas))
                      ELSE None
         IN  IF found.some THEN found.val ELSE ScanPlugins(Tail(plugins))

(* deserialize_files on the raw "plugins" value of a submission. *)
deserialize_files(rawPlugins) == ScanPlugins(Map(rawPlugins, DecodePlugin))

(* MSubmission: derived Deserialize, "plugins" read into files. *)
DecodeSubmission(raw) ==
    [userid |-> raw.userid,
     timemodified |-> raw.timemodified,
     files |-> deserialize_files(raw.plugins)]

(* AssignmentSubmission and SubmissionsResponse. *)
DecodeGroup(raw) ==
    [assignmentid |-> raw.assignmentid,
     submissions |-> Map(raw.submissions, DecodeSubmission)]

DecodeSubmissionsResponse(body) == Ok(Map(body, DecodeGroup))

(* AssignmentsResponse and UserResponse: every field is taken as it is. *)
DecodeAssignmentsResponse(body) == Ok(body)

DecodeUserResponse(body) == Ok(body)

(* The unit type reads from JSON null only. *)
DecodeUnit(body) == IF body = "null" THEN Ok("unit") ELSE Err(ErrJsonDeserialize)

(* LoginResponse: token is optional, error defaults to the empty string. *)
DecodeLoginResponse(body) ==
    Ok([token |-> body.token,
        error |-> IF body.error.some THEN body.error.val ELSE ""])

(* serde_json::from_reader::<_, T> on a body that is JSON of T's shape. *)
FromReader(T, body) ==
    CASE T = "LoginResponse" -> DecodeLoginResponse(body)
      [] T = "AssignmentsResponse" -> DecodeAssignmentsResponse(body)
      [] T = "SubmissionsResponse" -> DecodeSubmissionsResponse(body)
      [] T = "UserResponse" -> DecodeUserResponse(body)
      [] T = "()" -> DecodeUnit(body)

------------------------------------------------------------------------------
(* Input values. *)

Times == (0 - 1)..MaxTime
Halves == (0 - MaxHalves)..MaxHalves
Grades == {Fin(h) : h \in Halves} \cup {NaN, Inf, NegInf}
MaxGrades == {Fin(h) : h \in Halves} \cup {Inf}

Tokens == {"abc", "xyz"}
LoginErrors == {"", "invalid login"}
LoginBodies ==
    [token : {None} \cup {Some(t) : t \in Tokens},
     error : {None} \cup {Some(e) : e \in LoginErrors}]

BaseUrls ==
    {[text |-> "https://moodle.example/", cannot_be_a_base |-> FALSE],
     [text |-> "mailto:admin@moodle.example", cannot_be_a_base |-> TRUE]}

(* What the server answers to one request: no answer, a body that does not
   read as the expected type, or a body that does. *)
NetFailures ==
    {[kind |-> "transport", body |-> <<>>], [kind |-> "undecodable", body |-> <<>>]}

NetAnswers(bodies) == NetFailures \cup {[kind |-> "json", body |-> b] : b \in bodies}

Assignments ==
    [id : Ids, name : {"A"}, max_grade : {Fin(2)}, duedate : {1}]

CourseAssignmentLists == {<<>>} \cup {<<a>> : a \in {x \in Assignments : x.id = 1}}

Courses == [id : Ids, fullname : {"X", "Y"}, assignments : CourseAssignmentLists]

Users == [id : Ids, fullname : {"U"}, email : {"u@moodle.example"}]

FileA == [filename |-> <<"a">>, fileurl |-> "https://moodle.example/f/a", filepath |-> <<"/">>]
FileB == [filename |-> <<"a">>, fileurl |-> "https://moodle.example/f/b", filepath |-> <<"/", "a", "/">>]
FileC == [filename |-> <<"a">>, fileurl |-> "https://moodle.example/f/c", filepath |-> <<"a">>]

RawAreas ==
    {[area |-> "submission_files", files |-> Some(<<FileA>>)],
     [area |-> "submission_files", files |-> Some(<<FileB>>)],
     [area |-> "submission_files", files |-> None],
     [area |-> "submissions_onlinetext", files |-> Some(<<FileC>>)]}

RawPlugins ==
    [type : {"file", "onlinetext"},
     fileareas : {None} \cup {Some(a) : a \in SeqUpTo(RawAreas, MaxAreas)}]

RawSubmissionA ==
    [userid |-> 1, timemodified |-> 2,
     plugins |-> <<[type |-> "onlinetext", fileareas |-> None],
                   [type |-> "file",
                    fileareas |-> Some(<<[area |-> "submission_files",
                                          files |-> Some(<<FileB>>)]>>)]>>]

RawSubmissionB ==
    [userid |-> 2, timemodified |-> 0,
     plugins |-> <<[type |-> "file", fileareas |-> Some(<<>>)]>>]

RawSubmissionLists == {<<>>, <<RawSubmissionA>>, <<RawSubmissionB, RawSubmissionA>>}

RawGroups == [assignmentid : Ids, submissions : RawSubmissionLists]

Chunks == {"x", "y"}
Feedbacks == {None, Some(<<" ", "o", "k", " ">>)}

------------------------------------------------------------------------------
(* Moodle::new and Moodle::post. *)

LOGIN_PATH == "login/token.php?service=moodle_mobile_app"
WS_PATH == "webservice/rest/server.php?moodlewsrestformat=json"

(* Url::join with a relative reference: fails on a base that cannot be one. *)
UrlJoin(base, path) ==
    IF base.cannot_be_a_base THEN Err(ErrParse) ELSE Ok(<<base.text, path>>)

(* A transport that sends a second request when the first one fails. *)
SendAndDecodeRetry(net, T) ==
    [requests |-> IF net.kind = "json" THEN 1 ELSE 2,
     res |-> IF net.kind = "transport" THEN Err(ErrReqwest)
             ELSE IF net.kind = "undecodable" THEN Err(ErrJsonDeserialize)
             ELSE FromReader(T, net.body)]

(* reqwest send followed by serde_json::from_reader: the request is sent
   once, and either step's error is the result. *)
SendAndDecode(net, T) ==
    [requests |-> 1,
     res |-> IF net.kind = "transport" THEN Err(ErrReqwest)
             ELSE IF net.kind = "undecodable" THEN Err(ErrJsonDeserialize)
             ELSE FromReader(T, net.body)]

(* Moodle::new that takes an absent token as the empty token. *)
MoodleNewDefaultToken(base_url, username, password, net) ==
    LET loginUrl == UrlJoin(base_url, LOGIN_PATH)
    IN  IF ~loginUrl.ok THEN [requests |-> 0, res |-> loginUrl]
        ELSE LET sent == SendAndDecode(net, "LoginResponse")
             IN  IF ~sent.res.ok THEN sent
                 ELSE LET login == sent.res.val
                          wsUrl == UrlJoin(base_url, WS_PATH)
                      IN  [requests |-> sent.requests,
                           res |-> Ok([url |-> wsUrl.val,
                                       token |-> IF login.token.some
                                                 THEN login.token.val ELSE ""])]

(* Moodle::new: the result and the number of requests sent. *)
MoodleNew(base_url, username, password, net) ==
    LET loginUrl == UrlJoin(base_url, LOGIN_PATH)
    IN  IF ~loginUrl.ok THEN [requests |-> 0, res |-> loginUrl]
        ELSE LET sent == SendAndDecode(net, "LoginResponse")
             IN  IF ~sent.res.ok THEN sent
                 ELSE LET login == sent.res.val
                          wsUrl == UrlJoin(base_url, WS_PATH)
                      IN  [requests |-> sent.requests,
                           res |-> IF login.token.some
                                   THEN IF wsUrl.ok
                                        THEN Ok([url |-> wsUrl.val,
                                                 token |-> login.token.val])
                                        ELSE wsUrl
                                   ELSE Err(ErrLogin(login.error))]

(* Moodle::post: wstoken is added to the parameters, then one request. *)
Post(self, params, net, T) ==
    LET sent == SendAndDecode(net, T)
    IN  [requests |-> sent.requests,
         form |-> ("wstoken" :> self.token) @@ params,
         res |-> sent.res]

------------------------------------------------------------------------------
(* The operations, as functions of their inputs and of the server's answer. *)

(* str::trim *)
RECURSIVE Trim(_)
Trim(s) ==
    IF s = <<>> THEN s
    ELSE IF Head(s) = " " THEN Trim(Tail(s))
    ELSE IF s[Len(s)] = " " THEN Trim(DropLast(s, 1))
    ELSE s

(* i64::max *)
I64Max(a, b) == IF a < b THEN b ELSE a

(* `as u64` on an i64: the value modulo 2^64, written wraps * 2^64 + v. *)
AsU64(x) == IF x < 0 THEN [wraps |-> 1, v |-> x] ELSE [wraps |-> 0, v |-> x]

(* calculate_late without `.max(0)`. *)
calculate_late_no_floor(self, submission) ==
    AsU64(submission.timemodified - self.duedate)

(* MAssignment::calculate_late; the timestamps are whole seconds. *)
calculate_late(self, submission) ==
    AsU64(I64Max(submission.timemodified - self.duedate, 0))

(* MCourse::get_assignment *)
get_assignment(self, assignment_id) ==
    LET i == FirstIndex(self.assignments, LAMBDA a : a.id = assignment_id)
    IN  IF i # 0 THEN Ok(self.assignments[i])
        ELSE Err(ErrNotFound("Assignment", assignment_id))

(* upload_grade without the lower bound. *)
ClampGradeNoFloor(grade, max_grade) == F32Min(grade, max_grade)

(* The grade upload_grade sends. *)
ClampGrade(grade, max_grade) == F32Min(F32Max(grade, Zero), max_grade)

(* Moodle::upload_grade *)
upload_grade(self, assignment, user, grade, feedback, net) ==
    LET params ==
            ("wsfunction" :> "mod_assign_save_grade")
            @@ ("assignmentid" :> U64ToString(assignment.id))
            @@ ("userid" :> U64ToString(user.id))
            @@ ("grade" :> F32ToString(ClampGrade(grade, assignment.max_grade)))
            @@ ("attemptnumber" :> "-1")
            @@ ("addattempt" :> "0")
            @@ ("workflowstate" :> "")
            @@ ("applytoall" :> "0")
            @@ ("plugindata[assignfeedbackcomments_editor][text]"
                    :> Trim(UnwrapOrDefault(feedback)))
            @@ ("plugindata[assignfeedbackcomments_editor][format]" :> "2")
    IN  Post(self, params, net, "()")

(* get_course_assignments that takes the first course of the response. *)
get_course_assignments_first(self, course_id, net) ==
    LET params == ("wsfunction" :> "mod_assign_get_assignments")
                  @@ ("courseids[]" :> U64ToString(course_id))
        posted == Post(self, params, net, "AssignmentsResponse")
        courses == posted.res.val
    IN  IF ~posted.res.ok THEN posted
        ELSE [posted EXCEPT !.res = IF courses # <<>> THEN Ok(courses[1])
                                    ELSE Err(ErrNotFound("Course", course_id))]

(* Moodle::get_course_assignments *)
get_course_assignments(self, course_id, net) ==
    LET params == ("wsfunction" :> "mod_assign_get_assignments")
                  @@ ("courseids[]" :> U64ToString(course_id))
        posted == Post(self, params, net, "AssignmentsResponse")
        courses == posted.res.val
        i == FirstIndex(courses, LAMBDA c : c.id = course_id)
    IN  IF ~posted.res.ok THEN posted
        ELSE [posted EXCEPT !.res = IF i # 0 THEN Ok(courses[i])
                                    ELSE Err(ErrNotFound("Course", course_id))]

(* get_submissions that gives no submissions when no group matches. *)
get_submissions_or_empty(self, assignment_id, net) ==
    LET params == ("wsfunction" :> "mod_assign_get_submissions")
                  @@ ("assignmentids[]" :> U64ToString(assignment_id))
        posted == Post(self, params, net, "SubmissionsResponse")
        groups == posted.res.val
        i == FirstIndex(groups, LAMBDA g : g.assignmentid = assignment_id)
    IN  IF ~posted.res.ok THEN posted
        ELSE [posted EXCEPT !.res = IF i # 0 THEN Ok(groups[i].submissions)
                                    ELSE Ok(<<>>)]

(* Moodle::get_submissions *)
get_submissions(self, assignment_id, net) ==
    LET params == ("wsfunction" :> "mod_assign_get_submissions")
                  @@ ("assignmentids[]" :> U64ToString(assignment_id))
        posted == Post(self, params, net, "SubmissionsResponse")
        groups == posted.res.val
        i == FirstIndex(groups, LAMBDA g : g.assignmentid = assignment_id)
    IN  IF ~posted.res.ok THEN posted
        ELSE [posted EXCEPT !.res = IF i # 0 THEN Ok(groups[i].submissions)
                                    ELSE Err(ErrNotFound("Assignment", assignment_id))]

(* Moodle::get_user *)
get_user(self, user_id, net) ==
    LET params == ("wsfunction" :> "core_user_get_users_by_field")
                  @@ ("field" :> "id")
                  @@ ("values[]" :> U64ToString(user_id))
        posted == Post(self, params, net, "UserResponse")
        users == posted.res.val
        i == FirstIndex(users, LAMBDA u : u.id = user_id)
    IN  IF ~posted.res.ok THEN posted
        ELSE [posted EXCEPT !.res = IF i # 0 THEN Ok(users[i])
                                    ELSE Err(ErrNotFound("User", user_id))]

(* A File value that is kept instead of dropped. *)
KeepFile(open) == open

(* A File value going out of scope closes its handle. *)
DropFile(open) == open - 1

------------------------------------------------------------------------------
(* The state machine. *)

NoCall == [op |-> "none", requests |-> 0]

Init ==
    /\ moodle = NoMoodle
    /\ pc = "idle"
    /\ call = NoCall
    /\ disk = NoFile
    /\ handles = 0
    /\ stream = <<>>

LoggedIn == moodle.some

(* An operation that is one step: it starts when the client is idle and
   runs to its return. *)
Idle == pc = "idle"

Returns(c) ==
    /\ call' = c
    /\ pc' = "returned"
    /\ UNCHANGED <<disk, handles, stream>>

Login ==
    /\ Idle
    /\ \E base_url \in BaseUrls, net \in NetAnswers(LoginBodies) :
        LET out == MoodleNew(base_url, "user", "secret", net)
        IN  /\ Returns([op |-> "new", base_url |-> base_url, net |-> net,
                        requests |-> out.requests, res |-> out.res])
            /\ moodle' = IF out.res.ok THEN Some(out.res.val) ELSE moodle

GetCourseAssignments ==
    /\ Idle
    /\ LoggedIn
    /\ \E course_id \in Ids, net \in NetAnswers(SeqUpTo(Courses, MaxCourses)) :
        LET out == get_course_assignments(moodle.val, course_id, net)
        IN  Returns([op |-> "get_course_assignments", course_id |-> course_id,
                     net |-> net, requests |-> out.requests, form |-> out.form,
                     res |-> out.res])
    /\ UNCHANGED moodle

GetSubmissions ==
    /\ Idle
    /\ LoggedIn
    /\ \E assignment_id \in Ids, net \in NetAnswers(SeqUpTo(RawGroups, MaxGroups)) :
        LET out == get_submissions(moodle.val, assignment_id, net)
        IN  Returns([op |-> "get_submissions", assignment_id |-> assignment_id,
                     net |-> net, requests |-> out.requests, form |-> out.form,
                     res |-> out.res])
    /\ UNCHANGED moodle

GetUser ==
    /\ Idle
    /\ LoggedIn
    /\ \E user_id \in Ids, net \in NetAnswers(SeqUpTo(Users, MaxUsers)) :
        LET out == get_user(moodle.val, user_id, net)
        IN  Returns([op |-> "get_user", user_id |-> user_id,
                     net |-> net, requests |-> out.requests, form |-> out.form,
                     res |-> out.res])
    /\ UNCHANGED moodle

UploadGrade ==
    /\ Idle
    /\ LoggedIn
    /\ \E max_grade \in MaxGrades, user \in Users, grade \in Grades,
          feedback \in Feedbacks,
          net \in NetAnswers({"null", "exception"}) :
        LET assignment == [id |-> 1, name |-> "A", max_grade |-> max_grade,
                           duedate |-> 1]
            out == upload_grade(moodle.val, assignment, user, grade, feedback, net)
        IN  Returns([op |-> "upload_grade", assignment |-> assignment,
                     user |-> user, grade |-> grade, feedback |-> feedback,
                     net |-> net, requests |-> out.requests, form |-> out.form,
                     res |-> out.res])
    /\ UNCHANGED moodle

GetAssignment ==
    /\ Idle
    /\ \E course \in [id : {1}, fullname : {"X"},
                      assignments : SeqUpTo(Assignments, MaxAssignments)],
          assignment_id \in Ids :
        Returns([op |-> "get_assignment", course |-> course,
                 assignment_id |-> assignment_id, requests |-> 0,
                 res |-> get_assignment(course, assignment_id)])
    /\ UNCHANGED moodle

CalculateLate ==
    /\ Idle
    /\ \E duedate \in Times, timemodified \in Times :
        LET assignment == [id |-> 1, name |-> "A", max_grade |-> Fin(2),
                           duedate |-> duedate]
            submission == [userid |-> 1, timemodified |-> timemodified,
                           files |-> <<>>]
        IN  Returns([op |-> "calculate_late", assignment |-> assignment,
                     submission |-> submission, requests |-> 0,
                     res |-> calculate_late(assignment, submission)])
    /\ UNCHANGED moodle

(* The deserialisation of one submission's "plugins" value. *)
DeserializeFiles ==
    /\ Idle
    /\ \E plugins \in SeqUpTo(RawPlugins, MaxPlugins) :
        Returns([op |-> "deserialize_files", plugins |-> plugins, requests |-> 0,
                 res |-> deserialize_files(plugins)])
    /\ UNCHANGED moodle

(* The deserialisation of one file entry. *)
DeserializeFile ==
    /\ Idle
    /\ \E filepath \in Paths, filename \in Paths :
        LET raw == [filename |-> filename,
                    fileurl |-> "https://moodle.example/f", filepath |-> filepath]
        IN  Returns([op |-> "deserialize_file", raw |-> raw, requests |-> 0,
                     res |-> DecodeFile(raw)])
    /\ UNCHANGED moodle

(* SubmissionFile::fullpath on the file just read. *)
Fullpath ==
    /\ pc = "returned"
    /\ call.op = "deserialize_file"
    /\ call' = [op |-> "fullpath", file |-> call.res, requests |-> 0,
                res |-> fullpath(call.res)]
    /\ UNCHANGED <<moodle, pc, disk, handles, stream>>

(* deserialize_filepath on a path that is already its result. *)
DeserializeFilepathAgain ==
    /\ pc = "returned"
    /\ call.op = "deserialize_file"
    /\ call' = [op |-> "deserialize_filepath_again", raw |-> call.raw.filepath,
                once |-> call.res.filepath, requests |-> 0,
                res |-> deserialize_filepath(call.res.filepath)]
    /\ UNCHANGED <<moodle, pc, disk, handles, stream>>

(* download_file, `Client::new().post(..).form(..).send()?`: the request.
   The destination may or may not exist already. *)
DownloadSend ==
    /\ Idle
    /\ LoggedIn
    /\ \E net \in {n \in NetAnswers(SeqUpTo(Chunks, MaxBody)) : n.kind # "undecodable"},
          before \in {NoFile, [exists |-> TRUE, bytes |-> <<"old">>]} :
        /\ disk' = before
        /\ IF net.kind = "transport"
           THEN /\ call' = [op |-> "download_file", file |-> FileA, net |-> net,
                            before |-> before, requests |-> 1, copied |-> 0,
                            failed |-> "send", res |-> Err(ErrReqwest)]
                /\ pc' = "returned"
                /\ stream' = <<>>
           ELSE /\ call' = [op |-> "download_file", file |-> FileA, net |-> net,
                            before |-> before, requests |-> 1, copied |-> 0,
                            failed |-> "", res |-> None]
                /\ pc' = "create"
                /\ stream' = net.body
    /\ UNCHANGED <<moodle, handles>>

(* download_file, `File::create(path)?`: the file is created or truncated and
   a handle to it is open, or the error is returned. *)
DownloadCreate ==
    /\ pc = "create"
    /\ \/ /\ disk' = [exists |-> TRUE, bytes |-> <<>>]
          /\ handles' = handles + 1
          /\ pc' = "copy"
          /\ UNCHANGED call
       \/ /\ call' = [call EXCEPT !.failed = "create", !.res = Err(ErrIO)]
          /\ pc' = "returned"
          /\ UNCHANGED <<disk, handles>>
    /\ UNCHANGED <<moodle, stream>>

(* download_file, copy_to: one chunk of the body goes to the file. *)
DownloadCopy ==
    /\ pc = "copy"
    /\ stream # <<>>
    /\ disk' = [disk EXCEPT !.bytes = Append(@, Head(stream))]
    /\ stream' = Tail(stream)
    /\ call' = [call EXCEPT !.copied = @ + 1]
    /\ UNCHANGED <<moodle, pc, handles>>

(* download_file, copy_to fails before the end of the body: the error is
   returned, and the File temporary is dropped on the way out. *)
DownloadCopyFails ==
    /\ pc = "copy"
    /\ call' = [call EXCEPT !.failed = "copy", !.res = Err(ErrReqwest)]
    /\ handles' = DropFile(handles)
    /\ pc' = "returned"
    /\ UNCHANGED <<moodle, disk, stream>>

(* download_file, end of the body: the File temporary is dropped at the end
   of the statement, then Ok(()). *)
DownloadDone ==
    /\ pc = "copy"
    /\ stream = <<>>
    /\ call' = [call EXCEPT !.res = Ok("unit")]
    /\ handles' = DropFile(handles)
    /\ pc' = "returned"
    /\ UNCHANGED <<moodle, disk, stream>>

(* The caller takes the result; the next operation starts from scratch. *)
Resume ==
    /\ pc = "returned"
    /\ pc' = "idle"
    /\ call' = NoCall
    /\ disk' = NoFile
    /\ stream' = <<>>
    /\ UNCHANGED <<moodle, handles>>

Next ==
    \/ Login
    \/ GetCourseAssignments
    \/ GetSubmissions
    \/ GetUser
    \/ UploadGrade
    \/ GetAssignment
    \/ CalculateLate
    \/ DeserializeFiles
    \/ DeserializeFile
    \/ Fullpath
    \/ DeserializeFilepathAgain
    \/ DownloadSend
    \/ DownloadCreate
    \/ DownloadCopy
    \/ DownloadCopyFails
    \/ DownloadDone
    \/ Resume

Spec == Init /\ [][Next]_vars

------------------------------------------------------------------------------
(* What the claims below read off a state. *)

DigitValue(c) == (CHOOSE i \in 1..10 : DigitChars[i] = c) - 1

RECURSIVE DecimalValue(_)
DecimalValue(ds) ==
    IF ds = <<>> THEN 0
    ELSE DecimalValue(DropLast(ds, 1)) * 10 + DigitValue(ds[Len(ds)])

(* The number a transmitted grade text denotes. *)
GradeValue(text) ==
    LET neg == text # <<>> /\ text[1] = "-"
        body == IF neg THEN Tail(text) ELSE text
        dot == FirstIndex(body, LAMBDA c : c = ".")
        whole == IF dot = 0 THEN body ELSE SubSeq(body, 1, dot - 1)
        frac == IF dot = 0 THEN <<>> ELSE SubSeq(body, dot + 1, Len(body))
        halves == 2 * DecimalValue(whole) + (IF frac = <<"5">> THEN 1 ELSE 0)
    IN  IF body = <<"N", "a", "N">> THEN NaN
        ELSE IF body = <<"i", "n", "f">> THEN (IF neg THEN NegInf ELSE Inf)
        ELSE Fin(IF neg THEN 0 - halves ELSE halves)

F32Le(a, b) == a.k # "nan" /\ b.k # "nan" /\ ~F32Lt(b, a)

InGradeRange(x, max) == F32Le(Zero, x) /\ F32Le(x, max)

Uploaded == pc = "returned" /\ call.op = "upload_grade"
TransmittedGrade == GradeValue(call.form["grade"])

(* C1, as stated: for every grade g and every max_grade, the grade that
   upload_grade transmits lies in [0, max_grade], and it equals g whenever
   0 <= g <= max_grade. *)
C1_AnyMaxGrade ==
    Uploaded =>
        /\ InGradeRange(TransmittedGrade, call.assignment.max_grade)
        /\ InGradeRange(call.grade, call.assignment.max_grade)
               => TransmittedGrade = call.grade

(* C1, amended: for every grade g and every max_grade >= 0, the grade that
   upload_grade transmits lies in [0, max_grade], and it equals g whenever
   0 <= g <= max_grade; for a max_grade < 0 it is max_grade. *)
C1_ClampedGrade ==
    Uploaded =>
        IF F32Le(Zero, call.assignment.max_grade)
        THEN /\ InGradeRange(TransmittedGrade, call.assignment.max_grade)
             /\ InGradeRange(call.grade, call.assignment.max_grade)
                    => TransmittedGrade = call.grade
        ELSE TransmittedGrade = call.assignment.max_grade

(* The grade 1.5 was uploaded for an assignment of max_grade 1, as "1". *)
C1_Witness ==
    /\ Uploaded
    /\ call.assignment.max_grade = Fin(2)
    /\ call.grade = Fin(3)
    /\ call.form["grade"] = <<"1">>

(* C2: calculate_late returns max(0, submitted_at - due_date) in whole
   seconds; the result is never negative, and is 0 whenever
   submitted_at <= due_date. *)
C2_Lateness ==
    (pc = "returned" /\ call.op = "calculate_late") =>
        LET s == call.submission.timemodified
            d == call.assignment.duedate
        IN  /\ call.res.wraps = 0
            /\ call.res.v >= 0
            /\ call.res.v = (IF s - d > 0 THEN s - d ELSE 0)
            /\ s <= d => call.res.v = 0

(* calculate_late was applied to a submission made before the due date. *)
C2_Witness ==
    /\ pc = "returned"
    /\ call.op = "calculate_late"
    /\ call.submission.timemodified < call.assignment.duedate
    /\ call.res.v = 0

(* C3: deserialize_filepath's transformation is idempotent: applied to its
   own result it gives the same path as applied once. *)
C3_Idempotent ==
    (pc = "returned" /\ call.op = "deserialize_filepath_again") =>
        PathEq(call.res, call.once)

(* C4: when the response holds a course with the requested id,
   get_course_assignments returns a course of the response with that id,
   name and assignments as in the response; otherwise it returns
   NotFound(Course, course_id); it never returns a course of another id. *)
C4_CourseById ==
    (pc = "returned" /\ call.op = "get_course_assignments"
        /\ call.net.kind = "json") =>
        LET courses == call.net.body
        IN  IF \E i \in 1..Len(courses) : courses[i].id = call.course_id
            THEN /\ call.res.ok
                 /\ call.res.val.id = call.course_id
                 /\ \E i \in 1..Len(courses) : courses[i] = call.res.val
            ELSE call.res = Err(ErrNotFound("Course", call.course_id))

(* The requested course was found behind a course of another id. *)
C4_Witness ==
    /\ pc = "returned"
    /\ call.op = "get_course_assignments"
    /\ call.net.kind = "json"
    /\ Len(call.net.body) = 2
    /\ call.net.body[1].id # call.course_id
    /\ call.res = Ok(call.net.body[2])

(* C5: get_submissions fails with NotFound(Assignment, assignment_id) when
   no returned group has that assignmentid, and returns a list, the complete
   submissions of a group with that assignmentid, only when there is one. *)
C5_SubmissionsById ==
    (pc = "returned" /\ call.op = "get_submissions"
        /\ call.net.kind = "json") =>
        LET groups == call.net.body
            matching == {i \in 1..Len(groups) :
                            groups[i].assignmentid = call.assignment_id}
        IN  /\ matching = {}
                => call.res = Err(ErrNotFound("Assignment", call.assignment_id))
            /\ call.res.ok
                => \E i \in matching :
                     /\ Len(call.res.val) = Len(groups[i].submissions)
                     /\ \A k \in 1..Len(call.res.val) :
                          /\ call.res.val[k].userid = groups[i].submissions[k].userid
                          /\ call.res.val[k].timemodified
                                 = groups[i].submissions[k].timemodified
                          /\ call.res.val[k].files
                                 = deserialize_files(groups[i].submissions[k].plugins)

(* Groups of two other assignments came back, and the request failed. *)
C5_Witness ==
    /\ pc = "returned"
    /\ call.op = "get_submissions"
    /\ call.net.kind = "json"
    /\ Len(call.net.body) = 2
    /\ call.net.body[1].assignmentid # call.net.body[2].assignmentid
    /\ \A i \in 1..2 : call.net.body[i].assignmentid # call.assignment_id
    /\ call.res = Err(ErrNotFound("Assignment", call.assignment_id))

(* The positions (plugin, area) of the file areas named "submission_files"
   in plugins of type "file". *)
SubmissionAreas(plugins) ==
    {<<i, j>> \in (1..Len(plugins)) \X (1..MaxAreas) :
        /\ plugins[i].type = "file"
        /\ plugins[i].fileareas.some
        /\ j <= Len(plugins[i].fileareas.val)
        /\ plugins[i].fileareas.val[j].area = "submission_files"}

AreaFiles(plugins, at) ==
    Map(UnwrapOrDefault(plugins[at[1]].fileareas.val[at[2]].files), DecodeFile)

(* C6, as stated: the derived files are exactly the files found in file
   areas with area "submission_files" of plugins with type "file". *)
C6_AllSubmissionAreas ==
    (pc = "returned" /\ call.op = "deserialize_files") =>
        Range(call.res)
            = UNION {Range(AreaFiles(call.plugins, at)) :
                        at \in SubmissionAreas(call.plugins)}

(* C6, amended: the derived files are exactly the files of the first file
   area with area "submission_files" among the plugins with type "file", in
   the order of the response; files in any other area or plugin type are
   excluded, and the result is empty when there is no such area or that
   area's files are absent. *)
C6_FirstSubmissionArea ==
    (pc = "returned" /\ call.op = "deserialize_files") =>
        LET areas == SubmissionAreas(call.plugins)
        IN  IF areas = {} THEN call.res = <<>>
            ELSE \E at \in areas :
                    /\ \A other \in areas :
                          \/ at[1] < other[1]
                          \/ at[1] = other[1] /\ at[2] <= other[2]
                    /\ call.res = AreaFiles(call.plugins, at)

(* Two "submission_files" areas in plugins of type "file" with different
   files: the files derived are those of one area and not of the other. *)
C6_Witness ==
    /\ pc = "returned"
    /\ call.op = "deserialize_files"
    /\ Cardinality(SubmissionAreas(call.plugins)) = 2
    /\ call.res # <<>>
    /\ \E at \in SubmissionAreas(call.plugins) :
          AreaFiles(call.plugins, at) # call.res

(* C7: Moodle::new yields a Moodle holding the returned token exactly when
   the login response contains a token, and otherwise fails with the login
   error carrying the server's message verbatim. *)
C7_Login ==
    (pc = "returned" /\ call.op = "new") =>
        /\ (call.requests = 1 /\ call.net.kind = "json") =>
              IF call.net.body.token.some
              THEN /\ call.res.ok
                   /\ call.res.val.token = call.net.body.token.val
                   /\ moodle = Some(call.res.val)
              ELSE call.res =
                     Err(ErrLogin(IF call.net.body.error.some
                                  THEN call.net.body.error.val ELSE ""))
        /\ call.res.ok =>
              /\ call.requests = 1
              /\ call.net.kind = "json"
              /\ call.net.body.token.some

(* A response without a token and with the message "invalid login". *)
C7_Witness ==
    /\ pc = "returned"
    /\ call.op = "new"
    /\ call.requests = 1
    /\ call.net.kind = "json"
    /\ ~call.net.body.token.some
    /\ call.res = Err(ErrLogin("invalid login"))

(* C8: every public operation issues at most one network request per
   invocation, also when it fails, and get_assignment issues none. *)
C8_OneRequest ==
    /\ call.requests <= 1
    /\ call.op = "get_assignment" => call.requests = 0
    /\ (pc = "returned" /\ call.op \in {"new", "get_course_assignments",
            "get_submissions", "get_user", "upload_grade", "download_file"}
          /\ ~call.res.ok /\ call.res.err.kind # "Parse") => call.requests = 1

(* A query failed in transport after its one request. *)
C8_Witness ==
    /\ pc = "returned"
    /\ call.op = "get_user"
    /\ call.net.kind = "transport"
    /\ call.res = Err(ErrReqwest)
    /\ call.requests = 1

(* C9: once download_file has returned no handle on the destination file is
   open, whether it succeeded, failed to create the file or failed in
   mid-stream; on a failure in mid-stream the error is returned and the
   file keeps what was written to it. *)
C9_HandleReleased ==
    /\ pc \in {"idle", "returned"} => handles = 0
    /\ (pc = "returned" /\ call.op = "download_file" /\ call.failed = "copy") =>
          /\ ~call.res.ok
          /\ disk.exists
          /\ disk.bytes = SubSeq(call.net.body, 1, call.copied)
    /\ (pc = "returned" /\ call.op = "download_file" /\ call.failed = "create") =>
          /\ ~call.res.ok
          /\ disk = call.before

(* download_file failed after one chunk of two was written. *)
C9_Witness ==
    /\ pc = "returned"
    /\ call.op = "download_file"
    /\ call.failed = "copy"
    /\ call.copied = 1
    /\ Len(call.net.body) = 2
    /\ disk.bytes = <<call.net.body[1]>>
    /\ handles = 0

(* C10: SubmissionFile::fullpath is a relative path: it never begins with a
   path separator. *)
C10_FullpathRelative ==
    (pc = "returned" /\ call.op = "fullpath") => ~HasRoot(call.res)

====
